---- MODULE Spec2Model ----
(***************************************************************************)
(* The three bounded key -> i32 tables of part_2:                          *)
(*   ArrayHashTable   (array_hash_table.rs)    open addressing, fixed      *)
(*                    key buffers, first/last endpoints                    *)
(*   VectorHashTable  (vector_hash_table.rs)   open addressing, String keys*)
(*   HashMapHashTable (hash_map_hash_table.rs) HashMap + VecDeque order    *)
(* One table is constructed in Init (impl says which one); every action is *)
(* one call of one of its methods.                                         *)
(***************************************************************************)
EXTENDS Integers, Sequences, FiniteSets, TLC

(* ------------------------------ bounds -------------------------------- *)
\* pub const CAPACITY (12134 in the source), scaled down
CAPACITY == 3
\* pub const MAX_KEY_LEN (30 in the source), scaled down
MAX_KEY_LEN == 2
\* the i32 values stored are 1..MaxValue
MaxValue == 2
\* loop iterations followed beyond CAPACITY before a loop counts as endless
ProbeSlack == 1

Values == 1..MaxValue

\* Option<T>
None == << >>
Some(x) == << x >>

Rep(b, n) == [i \in 1..n |-> b]

\* The keys the callers use (byte strings): a one-byte key, the same byte
\* followed by a zero byte (equal to the first once zero-padded), a key of
\* exactly MAX_KEY_LEN bytes and one of MAX_KEY_LEN + 1 bytes.
Keys == { <<1>>, <<1, 0>>, Rep(2, MAX_KEY_LEN), Rep(2, MAX_KEY_LEN + 1) }

Impls == {"array", "vector", "hashmap"}

VARIABLES
    impl,      \* which table was constructed
    capacity,  \* VectorHashTable.capacity / HashMapHashTable.capacity
    rawHash,   \* hasher.finish() of each key
    table,     \* ArrayHashTable.table / VectorHashTable.table
    first,     \* ArrayHashTable.first
    last,      \* ArrayHashTable.last
    map,       \* HashMapHashTable.map
    order,     \* HashMapHashTable.order
    status,    \* "running", or how the last call failed to return: "hung", "panicked"
    live,      \* history: value of the last successful insert of a key not removed since (0: none)
    insOrder,  \* history: the keys stored, in the order they were first inserted
    updOrder,  \* history: the keys stored, in the order they were last inserted or updated
    log        \* history: the calls of a scripted run and what each returned

tbl == <<table, first, last>>
hm == <<map, order>>
hist == <<live, insOrder, updOrder, log>>
vars == <<impl, capacity, rawHash, table, first, last, map, order, status, live, insOrder, updOrder, log>>

Range(s) == { s[i] : i \in 1..Len(s) }
Without(s, k) == SelectSeq(s, LAMBDA x : x # k)
Min(S) == CHOOSE x \in S : \A y \in S : x <= y
Max(S) == CHOOSE x \in S : \A y \in S : x >= y

\* how a call ended that did not return
StatusOf(res) == CASE res = "Hang" -> "hung" [] res = "Panic" -> "panicked" [] OTHER -> "running"

(* --------------------------- ArrayHashTable --------------------------- *)

\* fn hash: (hasher.finish() as usize) % CAPACITY
ArrayHash(key) == rawHash[key] % CAPACITY

\* fn padded_copy: dst[..src.len()] = src, the rest of dst stays 0
padded_copy(src) == [i \in 1..MAX_KEY_LEN |-> IF i <= Len(src) THEN src[i] ELSE 0]

\* faulty variant: compares the whole zero-padded buffer instead of its first len bytes
ArrayKeyEq_WholeBuffer(e, key) == e.key = key
\* the match guard: &existing_key[..*existing_len] == key
ArrayKeyEq(e, key) == SubSeq(e.key, 1, e.len) = key

\* The probe loop shared by insert, remove and get: examine the slots idx,
\* idx + 1, ... (mod CAPACITY) and stop at the first None slot ("empty") or
\* the first slot whose key equals key ("match"); n is the number of
\* iterations still allowed, probes the number of slots examined so far.
RECURSIVE ArrayProbe(_, _, _, _, _)
ArrayProbe(t, key, idx, n, probes) ==
    IF n = 0 THEN [kind |-> "exhausted", idx |-> idx, probes |-> probes]
    ELSE IF t[idx] = None THEN [kind |-> "empty", idx |-> idx, probes |-> probes + 1]
    ELSE IF ArrayKeyEq(t[idx][1], key) THEN [kind |-> "match", idx |-> idx, probes |-> probes + 1]
    ELSE ArrayProbe(t, key, (idx + 1) % CAPACITY, n - 1, probes + 1)

\* insert: for _ in 0..CAPACITY
ArrayForProbe(t, key) == ArrayProbe(t, key, ArrayHash(key), CAPACITY, 0)
\* remove, get: loop { .. } has no bound. Once CAPACITY slots were examined
\* without a None slot or a match, idx is back at hash(key) with the table
\* unchanged, so the loop goes round for ever; it is followed for ProbeSlack
\* iterations more and "exhausted" then stands for the loop that never ends.
ArrayLoopProbe(t, key) == ArrayProbe(t, key, ArrayHash(key), CAPACITY + ProbeSlack, 0)

\* faulty variant: resets first and last and skips the scan
update_first_last_NoScan(t) == [first |-> None, last |-> None]
\* the slots that are Some
OccupiedIdx(t) == { i \in DOMAIN t : t[i] # None }
\* fn update_first_last: first/last := lowest/highest index of a Some slot
update_first_last(t) ==
    IF OccupiedIdx(t) = {} THEN [first |-> None, last |-> None]
    ELSE [first |-> Some(Min(OccupiedIdx(t))), last |-> Some(Max(OccupiedIdx(t)))]

\* faulty variant: rejects a key of exactly MAX_KEY_LEN bytes as well
ArrayInsertResult_LenGe(t, f, l, key, value) ==
    IF Len(key) >= MAX_KEY_LEN
    THEN [table |-> t, first |-> f, last |-> l, res |-> "KeyTooLong"]
    ELSE LET p == ArrayForProbe(t, key)
             e == Some([key |-> padded_copy(key), len |-> Len(key), val |-> value])
         IN  CASE p.kind = "empty" ->
                    [table |-> [t EXCEPT ![p.idx] = e],
                     first |-> IF f = None THEN Some(p.idx) ELSE f,
                     last |-> Some(p.idx), res |-> "Ok"]
               [] p.kind = "match" ->
                    [table |-> [t EXCEPT ![p.idx] = e],
                     first |-> f, last |-> Some(p.idx), res |-> "Ok"]
               [] OTHER ->
                    [table |-> t, first |-> f, last |-> l, res |-> "Full"]

\* fn insert, as a function of the table: the new table, first, last and the result
ArrayInsertResult(t, f, l, key, value) ==
    IF Len(key) > MAX_KEY_LEN
    THEN [table |-> t, first |-> f, last |-> l, res |-> "KeyTooLong"]
    ELSE LET p == ArrayForProbe(t, key)
             e == Some([key |-> padded_copy(key), len |-> Len(key), val |-> value])
         IN  CASE p.kind = "empty" ->
                    [table |-> [t EXCEPT ![p.idx] = e],
                     first |-> IF f = None THEN Some(p.idx) ELSE f,
                     last |-> Some(p.idx), res |-> "Ok"]
               [] p.kind = "match" ->
                    [table |-> [t EXCEPT ![p.idx] = e],
                     first |-> f, last |-> Some(p.idx), res |-> "Ok"]
               [] OTHER ->
                    [table |-> t, first |-> f, last |-> l, res |-> "Full"]

\* faulty variant: rescans first and last on every return, also when nothing was removed
ArrayRemoveResult_AlwaysRescan(t, f, l, key) ==
    LET p == ArrayLoopProbe(t, key)
        t2 == IF p.kind = "match" THEN [t EXCEPT ![p.idx] = None] ELSE t
        u == update_first_last(t2)
    IN  IF p.kind \in {"empty", "match"}
        THEN [table |-> t2, first |-> u.first, last |-> u.last, res |-> "Done"]
        ELSE [table |-> t, first |-> f, last |-> l, res |-> "Hang"]

\* faulty variant: rescans only when the removed slot is the one first points to
ArrayRemoveResult_FirstOnly(t, f, l, key) ==
    LET p == ArrayLoopProbe(t, key)
    IN  CASE p.kind = "empty" -> [table |-> t, first |-> f, last |-> l, res |-> "Done"]
          [] p.kind = "match" ->
                LET t2 == [t EXCEPT ![p.idx] = None]
                    u == update_first_last(t2)
                IN  IF f = Some(p.idx)
                    THEN [table |-> t2, first |-> u.first, last |-> u.last, res |-> "Done"]
                    ELSE [table |-> t2, first |-> f, last |-> l, res |-> "Done"]
          [] OTHER -> [table |-> t, first |-> f, last |-> l, res |-> "Hang"]

\* fn remove
ArrayRemoveResult(t, f, l, key) ==
    LET p == ArrayLoopProbe(t, key)
    IN  CASE p.kind = "empty" -> [table |-> t, first |-> f, last |-> l, res |-> "Done"]
          [] p.kind = "match" ->
                LET t2 == [t EXCEPT ![p.idx] = None]
                    u == update_first_last(t2)
                IN  IF f = Some(p.idx) \/ l = Some(p.idx)
                    THEN [table |-> t2, first |-> u.first, last |-> u.last, res |-> "Done"]
                    ELSE [table |-> t2, first |-> f, last |-> l, res |-> "Done"]
          [] OTHER -> [table |-> t, first |-> f, last |-> l, res |-> "Hang"]

\* fn get: Some(value), None, or no return at all
ArrayGetResult(t, key) ==
    LET p == ArrayLoopProbe(t, key)
    IN  CASE p.kind = "empty" -> [res |-> "None", val |-> 0]
          [] p.kind = "match" -> [res |-> "Some", val |-> t[p.idx][1].val]
          [] OTHER -> [res |-> "Hang", val |-> 0]

\* fn get_first / get_last: the (key, value) of the slot first / last points to
ArrayEndpoint(t, ix) ==
    IF ix = None THEN None
    ELSE IF t[ix[1]] = None THEN None
    ELSE Some(<<SubSeq(t[ix[1]][1].key, 1, t[ix[1]][1].len), t[ix[1]][1].val>>)
ArrayGetFirst == ArrayEndpoint(table, first)
ArrayGetLast == ArrayEndpoint(table, last)

(* --------------------------- VectorHashTable -------------------------- *)

\* fn hash: (hasher.finish() as usize) % self.capacity (called when capacity > 0;
\* with capacity 0 the remainder panics, see the Result operators)
VectorHash(key) == rawHash[key] % capacity

\* the probe loop of insert, get and remove: for _ in 0..self.capacity
RECURSIVE VectorProbe(_, _, _, _)
VectorProbe(t, key, idx, n) ==
    IF n = 0 THEN [kind |-> "exhausted", idx |-> idx]
    ELSE IF t[idx] = None THEN [kind |-> "empty", idx |-> idx]
    ELSE IF t[idx][1].key = key THEN [kind |-> "match", idx |-> idx]
    ELSE VectorProbe(t, key, (idx + 1) % capacity, n - 1)

\* fn insert
VectorInsertResult(t, key, value) ==
    IF capacity = 0 THEN [table |-> t, res |-> "Panic"]
    ELSE LET p == VectorProbe(t, key, VectorHash(key), capacity)
         IN  IF p.kind \in {"empty", "match"}
             THEN [table |-> [t EXCEPT ![p.idx] = Some([key |-> key, val |-> value])], res |-> "Ok"]
             ELSE [table |-> t, res |-> "Full"]

\* fn get
VectorGetResult(t, key) ==
    IF capacity = 0 THEN [res |-> "Panic", val |-> 0]
    ELSE LET p == VectorProbe(t, key, VectorHash(key), capacity)
         IN  IF p.kind = "match" THEN [res |-> "Some", val |-> t[p.idx][1].val]
             ELSE [res |-> "None", val |-> 0]

\* faulty variant: clears a slot only when the match is the key's home slot
VectorRemoveResult_HomeOnly(t, key) ==
    IF capacity = 0 THEN [table |-> t, res |-> "Panic"]
    ELSE LET p == VectorProbe(t, key, VectorHash(key), capacity)
         IN  IF p.kind = "match" /\ p.idx = VectorHash(key)
             THEN [table |-> [t EXCEPT ![p.idx] = None], res |-> "Done"]
             ELSE [table |-> t, res |-> "Done"]

\* fn remove
VectorRemoveResult(t, key) ==
    IF capacity = 0 THEN [table |-> t, res |-> "Panic"]
    ELSE LET p == VectorProbe(t, key, VectorHash(key), capacity)
         IN  IF p.kind = "match" THEN [table |-> [t EXCEPT ![p.idx] = None], res |-> "Done"]
             ELSE [table |-> t, res |-> "Done"]

(* -------------------------- HashMapHashTable -------------------------- *)

EmptyMap == [k \in {} |-> 0]
\* HashMap::insert / HashMap::remove
MapPut(m, key, value) == [k \in DOMAIN m \cup {key} |-> IF k = key THEN value ELSE m[k]]
MapDel(m, key) == [k \in DOMAIN m \ {key} |-> m[k]]
\* order.iter().position(..) then order.remove(pos): drop the first occurrence
RemoveFirst(s, key) ==
    IF key \notin Range(s) THEN s
    ELSE LET pos == Min({ i \in 1..Len(s) : s[i] = key })
         IN  SubSeq(s, 1, pos - 1) \o SubSeq(s, pos + 1, Len(s))

\* faulty variant: returns Ok for a key that is stored without writing the new value
HashMapInsertResult_NoOverwrite(m, o, key, value) ==
    IF key \in DOMAIN m THEN [map |-> m, order |-> o, res |-> "Ok"]
    ELSE IF Cardinality(DOMAIN m) = capacity THEN [map |-> m, order |-> o, res |-> "Full"]
    ELSE [map |-> MapPut(m, key, value), order |-> Append(o, key), res |-> "Ok"]

\* faulty variant: tests the capacity before it looks the key up
HashMapInsertResult_FullFirst(m, o, key, value) ==
    IF Cardinality(DOMAIN m) = capacity THEN [map |-> m, order |-> o, res |-> "Full"]
    ELSE IF key \in DOMAIN m THEN [map |-> MapPut(m, key, value), order |-> o, res |-> "Ok"]
    ELSE [map |-> MapPut(m, key, value), order |-> Append(o, key), res |-> "Ok"]

\* faulty variant: pushes the new key to order before it tests the capacity
HashMapInsertResult_PushFirst(m, o, key, value) ==
    IF key \in DOMAIN m THEN [map |-> MapPut(m, key, value), order |-> o, res |-> "Ok"]
    ELSE IF Cardinality(DOMAIN m) = capacity THEN [map |-> m, order |-> Append(o, key), res |-> "Full"]
    ELSE [map |-> MapPut(m, key, value), order |-> Append(o, key), res |-> "Ok"]

\* fn insert
HashMapInsertResult(m, o, key, value) ==
    IF key \in DOMAIN m THEN [map |-> MapPut(m, key, value), order |-> o, res |-> "Ok"]
    ELSE IF Cardinality(DOMAIN m) = capacity THEN [map |-> m, order |-> o, res |-> "Full"]
    ELSE [map |-> MapPut(m, key, value), order |-> Append(o, key), res |-> "Ok"]

\* fn get
HashMapGetResult(m, key) ==
    IF key \in DOMAIN m THEN [res |-> "Some", val |-> m[key]] ELSE [res |-> "None", val |-> 0]

\* faulty variant: drops the map entry and leaves the key in order
HashMapRemoveResult_KeepOrder(m, o, key) ==
    IF key \in DOMAIN m
    THEN [map |-> MapDel(m, key), order |-> o, res |-> "Done"]
    ELSE [map |-> m, order |-> o, res |-> "Done"]

\* fn remove
HashMapRemoveResult(m, o, key) ==
    IF key \in DOMAIN m
    THEN [map |-> MapDel(m, key), order |-> RemoveFirst(o, key), res |-> "Done"]
    ELSE [map |-> m, order |-> o, res |-> "Done"]

\* fn get_first / get_last: order.front() / order.back() looked up in map
HashMapEndpoint(m, o, i) ==
    IF o = << >> THEN None
    ELSE IF o[i] \in DOMAIN m THEN Some(<<o[i], m[o[i]]>>) ELSE None
HashMapGetFirst == HashMapEndpoint(map, order, 1)
HashMapGetLast == HashMapEndpoint(map, order, Len(order))

(* ------------------------------ history ------------------------------- *)
\* what the history variables become when insert(key, value) returned Ok
HistInsert(key, value) ==
    /\ live' = [live EXCEPT ![key] = value]
    /\ insOrder' = IF key \in Range(insOrder) THEN insOrder ELSE Append(insOrder, key)
    /\ updOrder' = Append(Without(updOrder, key), key)
    /\ UNCHANGED log
\* what they become when remove(key) returned
HistRemove(key) ==
    /\ live' = [live EXCEPT ![key] = 0]
    /\ insOrder' = Without(insOrder, key)
    /\ updOrder' = Without(updOrder, key)
    /\ UNCHANGED log
\* VectorHashTable has no endpoints: only live is kept for it
HistInsertLive(key, value) ==
    live' = [live EXCEPT ![key] = value] /\ UNCHANGED <<insOrder, updOrder, log>>
HistRemoveLive(key) ==
    live' = [live EXCEPT ![key] = 0] /\ UNCHANGED <<insOrder, updOrder, log>>

(* ------------------------- calls (one per method) --------------------- *)
ArrayInsertOp(key, value, r) ==
    /\ table' = r.table /\ first' = r.first /\ last' = r.last
    /\ status' = StatusOf(r.res)
    /\ UNCHANGED <<impl, capacity, rawHash, hm>>
ArrayRemoveOp(key, r) ==
    /\ table' = r.table /\ first' = r.first /\ last' = r.last
    /\ status' = StatusOf(r.res)
    /\ UNCHANGED <<impl, capacity, rawHash, hm>>
ArrayGetOp(key, r) ==
    /\ status' = StatusOf(r.res)
    /\ UNCHANGED <<impl, capacity, rawHash, tbl, hm>>

VectorInsertOp(key, value, r) ==
    /\ table' = r.table
    /\ status' = StatusOf(r.res)
    /\ UNCHANGED <<impl, capacity, rawHash, first, last, hm>>
VectorRemoveOp(key, r) ==
    /\ table' = r.table
    /\ status' = StatusOf(r.res)
    /\ UNCHANGED <<impl, capacity, rawHash, first, last, hm>>
VectorGetOp(key, r) ==
    /\ status' = StatusOf(r.res)
    /\ UNCHANGED <<impl, capacity, rawHash, tbl, hm>>

HashMapInsertOp(key, value, r) ==
    /\ map' = r.map /\ order' = r.order
    /\ status' = StatusOf(r.res)
    /\ UNCHANGED <<impl, capacity, rawHash, tbl>>
HashMapRemoveOp(key, r) ==
    /\ map' = r.map /\ order' = r.order
    /\ status' = StatusOf(r.res)
    /\ UNCHANGED <<impl, capacity, rawHash, tbl>>
HashMapGetOp(key, r) ==
    /\ status' = StatusOf(r.res)
    /\ UNCHANGED <<impl, capacity, rawHash, tbl, hm>>

(* ------------------- Spec: the tables and their calls ------------------ *)
ArrayInsert ==
    /\ impl = "array" /\ status = "running"
    /\ \E key \in Keys, value \in Values :
            \E r \in {ArrayInsertResult(table, first, last, key, value)} :
                ArrayInsertOp(key, value, r) /\ UNCHANGED hist
ArrayRemove ==
    /\ impl = "array" /\ status = "running"
    /\ \E key \in Keys :
            \E r \in {ArrayRemoveResult(table, first, last, key)} :
                ArrayRemoveOp(key, r) /\ UNCHANGED hist
ArrayGet ==
    /\ impl = "array" /\ status = "running"
    /\ \E key \in Keys :
            \E r \in {ArrayGetResult(table, key)} :
                ArrayGetOp(key, r) /\ UNCHANGED hist
VectorInsert ==
    /\ impl = "vector" /\ status = "running"
    /\ \E key \in Keys, value \in Values :
            \E r \in {VectorInsertResult(table, key, value)} :
                VectorInsertOp(key, value, r) /\ UNCHANGED hist
VectorRemove ==
    /\ impl = "vector" /\ status = "running"
    /\ \E key \in Keys :
            \E r \in {VectorRemoveResult(table, key)} :
                VectorRemoveOp(key, r) /\ UNCHANGED hist
VectorGet ==
    /\ impl = "vector" /\ status = "running"
    /\ \E key \in Keys :
            \E r \in {VectorGetResult(table, key)} :
                VectorGetOp(key, r) /\ UNCHANGED hist
HashMapInsert ==
    /\ impl = "hashmap" /\ status = "running"
    /\ \E key \in Keys, value \in Values :
            \E r \in {HashMapInsertResult(map, order, key, value)} :
                HashMapInsertOp(key, value, r) /\ UNCHANGED hist
HashMapRemove ==
    /\ impl = "hashmap" /\ status = "running"
    /\ \E key \in Keys :
            \E r \in {HashMapRemoveResult(map, order, key)} :
                HashMapRemoveOp(key, r) /\ UNCHANGED hist
HashMapGet ==
    /\ impl = "hashmap" /\ status = "running"
    /\ \E key \in Keys :
            \E r \in {HashMapGetResult(map, key)} :
                HashMapGetOp(key, r) /\ UNCHANGED hist

\* ArrayHashTable::new(), VectorHashTable::new(size), HashMapHashTable::new(capacity):
\* the strategy is selected at construction; the table starts empty.
\* HashMapHashTable does no hashing of its own (std HashMap does it).
Init ==
    /\ impl \in Impls
    /\ capacity \in IF impl = "array" THEN {CAPACITY} ELSE 0..CAPACITY
    /\ rawHash \in IF impl = "hashmap" THEN {[k \in Keys |-> 0]} ELSE [Keys -> 0..(CAPACITY - 1)]
    /\ table = IF impl = "hashmap" THEN << >> ELSE [i \in 0..(capacity - 1) |-> None]
    /\ first = None /\ last = None
    /\ map = EmptyMap /\ order = << >>
    /\ status = "running"
    /\ live = [k \in Keys |-> 0]
    /\ insOrder = << >> /\ updOrder = << >>
    /\ log = << >>

Next ==
    \/ ArrayInsert \/ ArrayRemove \/ ArrayGet
    \/ VectorInsert \/ VectorRemove \/ VectorGet
    \/ HashMapInsert \/ HashMapRemove \/ HashMapGet

Spec == Init /\ [][Next]_vars

(* ------------- SpecHist: the same calls, with their history ------------ *)
ArrayInsertH ==
    /\ impl = "array" /\ status = "running"
    /\ \E key \in Keys, value \in Values :
            \E r \in {ArrayInsertResult(table, first, last, key, value)} :
                /\ ArrayInsertOp(key, value, r)
                /\ IF r.res = "Ok" THEN HistInsert(key, value) ELSE UNCHANGED hist
ArrayRemoveH ==
    /\ impl = "array" /\ status = "running"
    /\ \E key \in Keys :
            \E r \in {ArrayRemoveResult(table, first, last, key)} :
                /\ ArrayRemoveOp(key, r)
                /\ IF r.res = "Done" THEN HistRemove(key) ELSE UNCHANGED hist
VectorInsertH ==
    /\ impl = "vector" /\ status = "running"
    /\ \E key \in Keys, value \in Values :
            \E r \in {VectorInsertResult(table, key, value)} :
                /\ VectorInsertOp(key, value, r)
                /\ IF r.res = "Ok" THEN HistInsertLive(key, value) ELSE UNCHANGED hist
VectorRemoveH ==
    /\ impl = "vector" /\ status = "running"
    /\ \E key \in Keys :
            \E r \in {VectorRemoveResult(table, key)} :
                /\ VectorRemoveOp(key, r)
                /\ IF r.res = "Done" THEN HistRemoveLive(key) ELSE UNCHANGED hist
HashMapInsertH ==
    /\ impl = "hashmap" /\ status = "running"
    /\ \E key \in Keys, value \in Values :
            \E r \in {HashMapInsertResult(map, order, key, value)} :
                /\ HashMapInsertOp(key, value, r)
                /\ IF r.res = "Ok" THEN HistInsert(key, value) ELSE UNCHANGED hist
HashMapRemoveH ==
    /\ impl = "hashmap" /\ status = "running"
    /\ \E key \in Keys :
            \E r \in {HashMapRemoveResult(map, order, key)} :
                /\ HashMapRemoveOp(key, r)
                /\ IF r.res = "Done" THEN HistRemove(key) ELSE UNCHANGED hist

NextHist ==
    \/ ArrayInsertH \/ ArrayRemoveH \/ ArrayGet
    \/ VectorInsertH \/ VectorRemoveH \/ VectorGet
    \/ HashMapInsertH \/ HashMapRemoveH \/ HashMapGet

SpecHist == Init /\ [][NextHist]_vars

(* ------------------------------- claims ------------------------------- *)
GotSome(v) == [res |-> "Some", val |-> v]
GotNone == [res |-> "None", val |-> 0]
\* what the history says get_first / get_last have to return
HistFirst == IF insOrder = << >> THEN None ELSE Some(<<Head(insOrder), live[Head(insOrder)]>>)
HistLast ==
    IF updOrder = << >> THEN None
    ELSE Some(<<updOrder[Len(updOrder)], live[updOrder[Len(updOrder)]]>>)

\* C1: durable lookup in the open-addressed tables: a key whose last
\* successful insert(k, v) was followed by no remove(k) and no insert(k, _)
\* is found by get(k) with the value v, whatever was done to other keys.
C1_DurableLookup ==
    \A k \in Keys :
        live[k] # 0 =>
            /\ impl = "array" => ArrayGetResult(table, k) = GotSome(live[k])
            /\ impl = "vector" => VectorGetResult(table, k) = GotSome(live[k])

\* C2: every insert, get and remove of ArrayHashTable examines at most
\* CAPACITY slots and returns; get and remove of a key that is not stored
\* return (none / nothing changed) also when every slot is occupied.
C2_ProbesBounded ==
    impl = "array" =>
        /\ status # "hung"
        /\ \A key \in Keys :
            /\ ArrayForProbe(table, key).probes <= CAPACITY
            /\ ArrayLoopProbe(table, key).probes <= CAPACITY
            /\ ArrayGetResult(table, key).res \in {"Some", "None"}
            /\ ArrayRemoveResult(table, first, last, key).res = "Done"

\* C3: ArrayHashTable::get_first returns the key and current value of the
\* entry inserted earliest among the entries stored.
C3_GetFirstEarliest == impl = "array" => ArrayGetFirst = HistFirst

\* C4: ArrayHashTable::get_last returns the key and value of the entry
\* most recently inserted or updated among the entries stored.
C4_GetLastMostRecent == impl = "array" => ArrayGetLast = HistLast

\* C5: HashMapHashTable::get_first returns the earliest-inserted key still
\* stored with its current value, and get_last the entry most recently
\* inserted or updated.
C5_HashMapEndpoints ==
    impl = "hashmap" => HashMapGetFirst = HistFirst /\ HashMapGetLast = HistLast

\* C6: endpoint invariant of ArrayHashTable: first and last are None exactly
\* when no slot is occupied, and otherwise each indexes an occupied slot, so
\* get_first / get_last return none exactly when the table is empty.
C6_EndpointInvariant ==
    impl = "array" =>
        /\ (first = None) <=> (OccupiedIdx(table) = {})
        /\ (last = None) <=> (OccupiedIdx(table) = {})
        /\ first # None => first[1] \in OccupiedIdx(table)
        /\ last # None => last[1] \in OccupiedIdx(table)
        /\ (ArrayGetFirst = None) <=> (OccupiedIdx(table) = {})
        /\ (ArrayGetLast = None) <=> (OccupiedIdx(table) = {})
\* a remove has left a hole in front of a displaced entry, and first and last differ
C6_Witness ==
    /\ impl = "array" /\ first # None /\ first # last
    /\ \E i \in OccupiedIdx(table) :
          LET k == SubSeq(table[i][1].key, 1, table[i][1].len)
          IN  ArrayHash(k) # i /\ table[ArrayHash(k)] = None

\* C7: in every reachable state of each table, if insert(k, v) returns Ok
\* then get(k) called directly afterwards returns v.
C7_RoundTrip ==
    \A key \in Keys, value \in Values :
        /\ impl = "array" =>
              LET r == ArrayInsertResult(table, first, last, key, value)
              IN  r.res = "Ok" => ArrayGetResult(r.table, key) = GotSome(value)
        /\ impl = "vector" =>
              LET r == VectorInsertResult(table, key, value)
              IN  r.res = "Ok" => VectorGetResult(r.table, key) = GotSome(value)
        /\ impl = "hashmap" =>
              LET r == HashMapInsertResult(map, order, key, value)
              IN  r.res = "Ok" => HashMapGetResult(r.map, key) = GotSome(value)
\* an entry stored away from its home slot (its insert probed past another
\* key) that get finds, and that a further insert gives another value
C7_Witness ==
    /\ impl = "array"
    /\ \E i \in OccupiedIdx(table), value \in Values :
          LET k == SubSeq(table[i][1].key, 1, table[i][1].len)
          IN  /\ ArrayHash(k) # i
              /\ ArrayGetResult(table, k) = GotSome(table[i][1].val)
              /\ value # table[i][1].val
              /\ ArrayInsertResult(table, first, last, k, value).res = "Ok"

\* C8: if insert(k, v1) returns Ok and insert(k, v2) follows directly, the
\* second insert returns Ok, get(k) then returns v2, and the number of
\* stored entries is the same as after the first insert.
C8_Update ==
    \A key \in Keys, v1 \in Values, v2 \in Values :
        /\ impl = "array" =>
              LET r1 == ArrayInsertResult(table, first, last, key, v1)
                  r2 == ArrayInsertResult(r1.table, r1.first, r1.last, key, v2)
              IN  r1.res = "Ok" =>
                      /\ r2.res = "Ok"
                      /\ ArrayGetResult(r2.table, key) = GotSome(v2)
                      /\ Cardinality(OccupiedIdx(r2.table)) = Cardinality(OccupiedIdx(r1.table))
        /\ impl = "vector" =>
              LET r1 == VectorInsertResult(table, key, v1)
                  r2 == VectorInsertResult(r1.table, key, v2)
              IN  r1.res = "Ok" =>
                      /\ r2.res = "Ok"
                      /\ VectorGetResult(r2.table, key) = GotSome(v2)
                      /\ Cardinality(OccupiedIdx(r2.table)) = Cardinality(OccupiedIdx(r1.table))
        /\ impl = "hashmap" =>
              LET r1 == HashMapInsertResult(map, order, key, v1)
                  r2 == HashMapInsertResult(r1.map, r1.order, key, v2)
              IN  r1.res = "Ok" =>
                      /\ r2.res = "Ok"
                      /\ HashMapGetResult(r2.map, key) = GotSome(v2)
                      /\ Cardinality(DOMAIN r2.map) = Cardinality(DOMAIN r1.map)
                      /\ Len(r2.order) = Len(r1.order)
\* a full map in which a stored key is given a different value
C8_Witness ==
    /\ impl = "hashmap" /\ capacity = CAPACITY /\ Cardinality(DOMAIN map) = capacity
    /\ \E key \in DOMAIN map, v2 \in Values :
          /\ map[key] # v2
          /\ HashMapInsertResult(map, order, key, v2).res = "Ok"
          /\ HashMapGetResult(HashMapInsertResult(map, order, key, v2).map, key) = GotSome(v2)

\* C9: in every reachable state of each table, get(k) called directly after
\* remove(k) returns none.
C9_RemoveThenGet ==
    \A key \in Keys :
        /\ impl = "array" =>
              LET r == ArrayRemoveResult(table, first, last, key)
              IN  r.res = "Done" => ArrayGetResult(r.table, key) = GotNone
        /\ impl = "vector" =>
              LET r == VectorRemoveResult(table, key)
              IN  r.res = "Done" => VectorGetResult(r.table, key) = GotNone
        /\ impl = "hashmap" =>
              LET r == HashMapRemoveResult(map, order, key)
              IN  r.res = "Done" => HashMapGetResult(r.map, key) = GotNone
\* remove of a key that is stored away from its home slot
C9_Witness ==
    /\ impl = "vector" /\ capacity = CAPACITY
    /\ \E key \in Keys :
          /\ VectorGetResult(table, key).res = "Some"
          /\ VectorProbe(table, key, VectorHash(key), capacity).idx # VectorHash(key)
          /\ VectorRemoveResult(table, key).table # table
          /\ VectorGetResult(VectorRemoveResult(table, key).table, key) = GotNone

\* C10: remove(k) of a key that get(k) reports as none leaves every slot,
\* first and last (the map and the order deque) unchanged.
C10_RemoveAbsentNoOp ==
    \A key \in Keys :
        /\ impl = "array" =>
              (ArrayGetResult(table, key) = GotNone =>
                  LET r == ArrayRemoveResult(table, first, last, key)
                  IN  r.res = "Done" /\ r.table = table /\ r.first = first /\ r.last = last)
        /\ impl = "vector" =>
              (VectorGetResult(table, key) = GotNone =>
                  LET r == VectorRemoveResult(table, key)
                  IN  r.res = "Done" /\ r.table = table)
        /\ impl = "hashmap" =>
              (HashMapGetResult(map, key) = GotNone =>
                  LET r == HashMapRemoveResult(map, order, key)
                  IN  r.res = "Done" /\ r.map = map /\ r.order = order)
\* remove of an absent key where a rescan would move first or last
C10_Witness ==
    /\ impl = "array"
    /\ update_first_last(table).first # first
    /\ \E key \in Keys :
          /\ ArrayGetResult(table, key) = GotNone
          /\ ArrayRemoveResult(table, first, last, key).res = "Done"

(* --------- SpecFill: pairwise distinct keys put into a new table -------- *)
\* CAPACITY + 1 distinct keys of one byte each (the key{i} and overflow_key of
\* test_insert_over_capacity), under every hash function
FillKeys == { << b >> : b \in 1..(CAPACITY + 1) }
\* the key was not passed to insert before
Fresh(key) == \A i \in 1..Len(log) : log[i].key # key
\* a table as its constructor leaves it
InitFill ==
    /\ impl \in Impls
    /\ capacity \in IF impl = "array" THEN {CAPACITY} ELSE 0..CAPACITY
    /\ rawHash \in IF impl = "hashmap" THEN {[k \in FillKeys |-> 0]} ELSE [FillKeys -> 0..(CAPACITY - 1)]
    /\ table = IF impl = "hashmap" THEN << >> ELSE [i \in 0..(capacity - 1) |-> None]
    /\ first = None /\ last = None
    /\ map = EmptyMap /\ order = << >>
    /\ status = "running"
    /\ live = [k \in Keys |-> 0]
    /\ insOrder = << >> /\ updOrder = << >>
    /\ log = << >>
\* insert(key{i}, i) of a key not inserted before; the result is logged
ArrayFill ==
    /\ impl = "array" /\ status = "running"
    /\ \E key \in FillKeys :
            /\ Fresh(key)
            /\ \E r \in {ArrayInsertResult(table, first, last, key, Len(log) + 1)} :
                    /\ ArrayInsertOp(key, Len(log) + 1, r)
                    /\ log' = Append(log, [key |-> key, res |-> r.res])
                    /\ UNCHANGED <<live, insOrder, updOrder>>
VectorFill ==
    /\ impl = "vector" /\ status = "running"
    /\ \E key \in FillKeys :
            /\ Fresh(key)
            /\ \E r \in {VectorInsertResult(table, key, Len(log) + 1)} :
                    /\ VectorInsertOp(key, Len(log) + 1, r)
                    /\ log' = Append(log, [key |-> key, res |-> r.res])
                    /\ UNCHANGED <<live, insOrder, updOrder>>
HashMapFill ==
    /\ impl = "hashmap" /\ status = "running"
    /\ \E key \in FillKeys :
            /\ Fresh(key)
            /\ \E r \in {HashMapInsertResult(map, order, key, Len(log) + 1)} :
                    /\ HashMapInsertOp(key, Len(log) + 1, r)
                    /\ log' = Append(log, [key |-> key, res |-> r.res])
                    /\ UNCHANGED <<live, insOrder, updOrder>>

NextFill == ArrayFill \/ VectorFill \/ HashMapFill

SpecFill == InitFill /\ [][NextFill]_vars

\* C11 (fullness from empty): on a newly created table of capacity C, the
\* first C inserts of pairwise distinct keys each return Ok and every insert
\* of a further distinct key returns the 'full' error, whatever the hash
\* function is.  The i-th logged insert is Ok for i <= capacity, Full after.
C11_FullnessFromEmpty ==
    \A i \in 1..Len(log) :
        log[i].res = (IF i <= capacity THEN "Ok" ELSE "Full")

(* ------------------------- claims on insert ---------------------------- *)
\* the slots of an open-addressed table that hold key
ArraySlotsOf(t, key) == { i \in DOMAIN t : t[i] # None /\ ArrayKeyEq(t[i][1], key) }
VectorSlotsOf(t, key) == { i \in DOMAIN t : t[i] # None /\ t[i][1].key = key }

\* C12 (update at capacity): in every reachable state in which the table is
\* full (every slot occupied, or as many map entries as the capacity),
\* insert(k, v) of a key k the table stores returns Ok, never 'full'.
C12_UpdateAtCapacity ==
    \A key \in Keys, value \in Values :
        CASE impl = "array" ->
                (OccupiedIdx(table) = DOMAIN table /\ ArraySlotsOf(table, key) # {})
                    => ArrayInsertResult(table, first, last, key, value).res = "Ok"
          [] impl = "vector" ->
                (OccupiedIdx(table) = DOMAIN table /\ VectorSlotsOf(table, key) # {})
                    => VectorInsertResult(table, key, value).res = "Ok"
          [] OTHER ->
                (Cardinality(DOMAIN map) = capacity /\ key \in DOMAIN map)
                    => HashMapInsertResult(map, order, key, value).res = "Ok"
\* a full ArrayHashTable in which a stored key sits in the last slot of its
\* probe sequence, and is updated there
C12_Witness ==
    /\ impl = "array" /\ status = "running"
    /\ OccupiedIdx(table) = DOMAIN table
    /\ \E key \in Keys :
          /\ ArraySlotsOf(table, key) # {}
          /\ ArrayForProbe(table, key).probes = CAPACITY
          /\ ArrayInsertResult(table, first, last, key, 1).res = "Ok"

\* C13 (key-length boundary of ArrayHashTable::insert): in every state a key
\* longer than MAX_KEY_LEN is rejected with the key-length error whatever the
\* slots hold (also in a full table, where a probe would report 'full') and
\* nothing is written; a key of exactly MAX_KEY_LEN bytes is accepted (Ok)
\* whenever the table has an empty slot or already stores that key.
C13_KeyLengthBoundary ==
    impl = "array" =>
        \A key \in Keys, value \in Values :
            /\ Len(key) > MAX_KEY_LEN =>
                    ArrayInsertResult(table, first, last, key, value)
                        = [table |-> table, first |-> first, last |-> last, res |-> "KeyTooLong"]
            /\ (/\ Len(key) = MAX_KEY_LEN
                /\ (OccupiedIdx(table) # DOMAIN table \/ ArraySlotsOf(table, key) # {}))
                    => ArrayInsertResult(table, first, last, key, value).res = "Ok"
\* a full table that stores a key of MAX_KEY_LEN bytes: the stored key is
\* accepted, the key of MAX_KEY_LEN + 1 bytes is rejected for its length
C13_Witness ==
    /\ impl = "array" /\ status = "running"
    /\ OccupiedIdx(table) = DOMAIN table
    /\ ArraySlotsOf(table, Rep(2, MAX_KEY_LEN)) # {}
    /\ ArrayInsertResult(table, first, last, Rep(2, MAX_KEY_LEN), 1).res = "Ok"
    /\ ArrayInsertResult(table, first, last, Rep(2, MAX_KEY_LEN + 1), 1).res = "KeyTooLong"

\* C14 (no partial failure): whenever insert returns an error ('full' or
\* key too long), the table is exactly as it was before the call: every
\* slot, first and last (ArrayHashTable), every slot (VectorHashTable), map
\* and order (HashMapHashTable).
C14_NoPartialFailure ==
    \A key \in Keys, value \in Values :
        CASE impl = "array" ->
                LET r == ArrayInsertResult(table, first, last, key, value)
                IN  r.res \in {"Full", "KeyTooLong"}
                        => r.table = table /\ r.first = first /\ r.last = last
          [] impl = "vector" ->
                LET r == VectorInsertResult(table, key, value)
                IN  r.res = "Full" => r.table = table
          [] OTHER ->
                LET r == HashMapInsertResult(map, order, key, value)
                IN  r.res = "Full" => r.map = map /\ r.order = order
\* a HashMapHashTable that holds keys and refuses a new one as full
C14_Witness ==
    /\ impl = "hashmap" /\ status = "running"
    /\ order # << >>
    /\ \E key \in Keys : HashMapInsertResult(map, order, key, 1).res = "Full"

(* ---------- SpecScenario: the capacity-2 test, call after call ---------- *)
\* HashMapHashTable::new(2), VectorHashTable::new(2) of test_over_capacity
ScenarioCapacity == 2
key1 == << 1 >>
key2 == << 1, 0 >>
key3 == Rep(2, MAX_KEY_LEN)
NoKey == << >>
ScenarioCalls ==
    << [op |-> "insert", key |-> key1, val |-> 1],
       [op |-> "insert", key |-> key2, val |-> 2],
       [op |-> "insert", key |-> key3, val |-> 3],
       [op |-> "get_first", key |-> NoKey, val |-> 0],
       [op |-> "get_last", key |-> NoKey, val |-> 0],
       [op |-> "remove", key |-> key1, val |-> 0],
       [op |-> "get_first", key |-> NoKey, val |-> 0],
       [op |-> "get", key |-> key1, val |-> 0] >>
\* VectorHashTable has no get_first / get_last: it runs the other calls
HasEndpoints == impl # "vector"
Script ==
    IF HasEndpoints THEN ScenarioCalls
    ELSE SelectSeq(ScenarioCalls, LAMBDA c : c.op \notin {"get_first", "get_last"})
\* the call that comes next (the last one again once the script is through)
NextCall == Script[Min({Len(log) + 1, Len(Script)})]
ScriptRuns == status = "running" /\ Len(log) < Len(Script)

\* a new table of capacity 2; ArrayHashTable is one only if its CAPACITY is 2
InitScenario ==
    /\ impl \in {"vector", "hashmap"} \cup (IF CAPACITY = ScenarioCapacity THEN {"array"} ELSE {})
    /\ capacity = ScenarioCapacity
    /\ rawHash \in IF impl = "hashmap" THEN {[k \in Keys |-> 0]} ELSE [Keys -> 0..(CAPACITY - 1)]
    /\ table = IF impl = "hashmap" THEN << >> ELSE [i \in 0..(capacity - 1) |-> None]
    /\ first = None /\ last = None
    /\ map = EmptyMap /\ order = << >>
    /\ status = "running"
    /\ live = [k \in Keys |-> 0]
    /\ insOrder = << >> /\ updOrder = << >>
    /\ log = << >>

ScenarioInsert ==
    /\ ScriptRuns /\ NextCall.op = "insert"
    /\ \E c \in {NextCall} :
          CASE impl = "array" ->
                \E r \in {ArrayInsertResult(table, first, last, c.key, c.val)} :
                    ArrayInsertOp(c.key, c.val, r) /\ log' = Append(log, r.res)
            [] impl = "vector" ->
                \E r \in {VectorInsertResult(table, c.key, c.val)} :
                    VectorInsertOp(c.key, c.val, r) /\ log' = Append(log, r.res)
            [] OTHER ->
                \E r \in {HashMapInsertResult(map, order, c.key, c.val)} :
                    HashMapInsertOp(c.key, c.val, r) /\ log' = Append(log, r.res)
    /\ UNCHANGED <<live, insOrder, updOrder>>
ScenarioRemove ==
    /\ ScriptRuns /\ NextCall.op = "remove"
    /\ \E c \in {NextCall} :
          CASE impl = "array" ->
                \E r \in {ArrayRemoveResult(table, first, last, c.key)} :
                    ArrayRemoveOp(c.key, r) /\ log' = Append(log, r.res)
            [] impl = "vector" ->
                \E r \in {VectorRemoveResult(table, c.key)} :
                    VectorRemoveOp(c.key, r) /\ log' = Append(log, r.res)
            [] OTHER ->
                \E r \in {HashMapRemoveResult(map, order, c.key)} :
                    HashMapRemoveOp(c.key, r) /\ log' = Append(log, r.res)
    /\ UNCHANGED <<live, insOrder, updOrder>>
ScenarioGet ==
    /\ ScriptRuns /\ NextCall.op = "get"
    /\ \E c \in {NextCall} :
          CASE impl = "array" ->
                \E r \in {ArrayGetResult(table, c.key)} :
                    ArrayGetOp(c.key, r) /\ log' = Append(log, r)
            [] impl = "vector" ->
                \E r \in {VectorGetResult(table, c.key)} :
                    VectorGetOp(c.key, r) /\ log' = Append(log, r)
            [] OTHER ->
                \E r \in {HashMapGetResult(map, c.key)} :
                    HashMapGetOp(c.key, r) /\ log' = Append(log, r)
    /\ UNCHANGED <<live, insOrder, updOrder>>
\* get_first() / get_last(): read only
ScenarioEndpoint ==
    /\ ScriptRuns /\ HasEndpoints /\ NextCall.op \in {"get_first", "get_last"}
    /\ log' = Append(log,
                CASE impl = "array" /\ NextCall.op = "get_first" -> ArrayGetFirst
                  [] impl = "array" /\ NextCall.op = "get_last" -> ArrayGetLast
                  [] impl = "hashmap" /\ NextCall.op = "get_first" -> HashMapGetFirst
                  [] OTHER -> HashMapGetLast)
    /\ UNCHANGED <<impl, capacity, rawHash, tbl, hm, status, live, insOrder, updOrder>>

NextScenario == ScenarioInsert \/ ScenarioRemove \/ ScenarioGet \/ ScenarioEndpoint

SpecScenario == InitScenario /\ [][NextScenario]_vars

\* what the calls of the script have to return, one entry per call
ScenarioExpected ==
    IF HasEndpoints
    THEN << "Ok", "Ok", "Full", Some(<<key1, 1>>), Some(<<key2, 2>>),
            "Done", Some(<<key2, 2>>), GotNone >>
    ELSE << "Ok", "Ok", "Full", "Done", GotNone >>

\* C15 (capacity-2 scenario): on an empty table of capacity 2, under every
\* assignment of hash values to the keys, insert(key1, 1) and insert(key2, 2)
\* return Ok, insert(key3, 3) returns the 'full' error, get_first() is
\* (key1, 1), get_last() is (key2, 2); after remove(key1), get_first() is
\* (key2, 2) and get(key1) is none.  Every call made so far returned what
\* the scenario says.
C15_Capacity2Scenario == log = SubSeq(ScenarioExpected, 1, Len(log))
\* the table with endpoints went through the whole script
C15_Witness ==
    /\ impl = "hashmap" /\ status = "running"
    /\ Len(log) = Len(ScenarioCalls)
    /\ HashMapGetFirst = Some(<<key2, 2>>)

(* ---------------------- claims on failure and removal ------------------- *)
\* C16 (errors are values, never panics): for every table the constructors
\* produce, VectorHashTable::new(0) and HashMapHashTable::new(0) included,
\* and every key, insert returns Ok or Err and get and remove return
\* normally: no call aborts or fails to return.
C16_ErrorsAreValues == status = "running"

\* C17 (removed keys stay removed, open-addressed tables): after remove(k),
\* get(k) returns none in every later state until the next insert(k, _) that
\* returns Ok, whatever is inserted and removed in between.  live[k] = 0
\* says that no insert(k, _) returned Ok since the last remove(k) (or ever);
\* then a get(k) that returns does not return a value.
C17_RemovedStayRemoved ==
    (impl \in {"array", "vector"} /\ status = "running") =>
        \A key \in Keys :
            live[key] = 0 =>
                (IF impl = "array" THEN ArrayGetResult(table, key)
                 ELSE VectorGetResult(table, key)).res # "Some"

\* the slots a call emptied: Some in table t, None in table t2
Emptied(t, t2) == { i \in DOMAIN t : t[i] # None /\ t2[i] = None }

\* C18 (endpoint repair on remove, ArrayHashTable): when remove(k) empties
\* the slot that first or last pointed to, afterwards first is the
\* lowest-index occupied slot and last the highest-index occupied slot (both
\* None if no slot is occupied); a remove that returns otherwise leaves first
\* and last unchanged.
C18_EndpointRepair ==
    impl = "array" =>
        \A key \in Keys :
            LET r == ArrayRemoveResult(table, first, last, key)
                occ == OccupiedIdx(r.table)
            IN  r.res = "Done" =>
                    IF \E i \in Emptied(table, r.table) : first = Some(i) \/ last = Some(i)
                    THEN IF occ = {} THEN r.first = None /\ r.last = None
                         ELSE /\ r.first # None /\ r.last # None
                              /\ r.first[1] \in occ /\ r.last[1] \in occ
                              /\ \A i \in occ : r.first[1] <= i /\ i <= r.last[1]
                    ELSE r.first = first /\ r.last = last
\* remove empties the slot last points to, not the one first points to, and
\* the repair moves both endpoints
C18_Witness ==
    /\ impl = "array" /\ status = "running"
    /\ \E key \in Keys :
          LET r == ArrayRemoveResult(table, first, last, key)
          IN  /\ r.res = "Done"
              /\ \E i \in Emptied(table, r.table) : last = Some(i) /\ first # Some(i)
              /\ r.first # first /\ r.last # last /\ r.last # None

\* the offsets j at which the probe sequence hash(k), hash(k) + 1, ... of an
\* open-addressed table meets a slot that is empty or holds key
ArrayCandidates(t, key) ==
    { j \in 0..(CAPACITY - 1) :
        \/ t[(ArrayHash(key) + j) % CAPACITY] = None
        \/ ArrayKeyEq(t[(ArrayHash(key) + j) % CAPACITY][1], key) }
VectorCandidates(t, key) ==
    { j \in 0..(capacity - 1) :
        \/ t[(VectorHash(key) + j) % capacity] = None
        \/ t[(VectorHash(key) + j) % capacity][1].key = key }

\* C19 (linear-probe placement): a successful insert(k, v) on an
\* open-addressed table writes (k, v) into exactly one slot, the first slot
\* of the sequence hash(k), hash(k) + 1, ... (mod CAPACITY) that is empty or
\* holds a key equal to k, sets last to that slot and first to it only if
\* first was None (ArrayHashTable), and leaves every other slot unchanged;
\* insert returns the 'full' error exactly when all CAPACITY slots are
\* occupied by keys different from k.  (Keys within MAX_KEY_LEN: a longer
\* key is rejected before the probe, C13.)
C19_LinearProbePlacement ==
    \A key \in Keys, value \in Values :
        CASE impl = "array" ->
                Len(key) <= MAX_KEY_LEN =>
                    LET r == ArrayInsertResult(table, first, last, key, value)
                        cand == ArrayCandidates(table, key)
                        slot == (ArrayHash(key) + Min(cand)) % CAPACITY
                    IN  /\ r.res \in {"Ok", "Full"}
                        /\ r.res = "Full" <=> cand = {}
                        /\ r.res = "Ok" =>
                            /\ r.table = [table EXCEPT ![slot] =
                                    Some([key |-> padded_copy(key), len |-> Len(key), val |-> value])]
                            /\ r.last = Some(slot)
                            /\ r.first = (IF first = None THEN Some(slot) ELSE first)
          [] impl = "vector" ->
                LET r == VectorInsertResult(table, key, value)
                    cand == VectorCandidates(table, key)
                    slot == (VectorHash(key) + Min(cand)) % capacity
                IN  /\ r.res \in {"Ok", "Full"}
                    /\ r.res = "Full" <=> cand = {}
                    /\ r.res = "Ok" =>
                            r.table = [table EXCEPT ![slot] = Some([key |-> key, val |-> value])]
          [] OTHER -> TRUE

(* ---- SpecPair: VectorHashTable and HashMapHashTable, the same calls ---- *)
\* the largest capacity of the two tables that run side by side
MaxPairCapacity == 2
\* VectorHashTable::new(n) and HashMapHashTable::new(n) side by side, n >= 1
\* (with n = 0 the first call of VectorHashTable panics, see C16)
InitPair ==
    /\ impl = "pair"
    /\ capacity \in 1..MaxPairCapacity
    /\ rawHash \in [Keys -> 0..(CAPACITY - 1)]
    /\ table = [i \in 0..(capacity - 1) |-> None]
    /\ first = None /\ last = None
    /\ map = EmptyMap /\ order = << >>
    /\ status = "running"
    /\ live = [k \in Keys |-> 0]
    /\ insOrder = << >> /\ updOrder = << >>
    /\ log = << >>
\* the same call is made on both tables
PairInsert ==
    /\ impl = "pair" /\ status = "running"
    /\ \E key \in Keys, value \in Values :
            \E rv \in {VectorInsertResult(table, key, value)},
               rh \in {HashMapInsertResult(map, order, key, value)} :
                /\ table' = rv.table
                /\ map' = rh.map /\ order' = rh.order
                /\ status' = StatusOf(rv.res)
                /\ UNCHANGED <<impl, capacity, rawHash, first, last>> /\ UNCHANGED hist
PairRemove ==
    /\ impl = "pair" /\ status = "running"
    /\ \E key \in Keys :
            \E rv \in {VectorRemoveResult(table, key)},
               rh \in {HashMapRemoveResult(map, order, key)} :
                /\ table' = rv.table
                /\ map' = rh.map /\ order' = rh.order
                /\ status' = StatusOf(rv.res)
                /\ UNCHANGED <<impl, capacity, rawHash, first, last>> /\ UNCHANGED hist
PairGet ==
    /\ impl = "pair" /\ status = "running"
    /\ \E key \in Keys :
            \E rv \in {VectorGetResult(table, key)} :
                /\ status' = StatusOf(rv.res)
                /\ UNCHANGED <<impl, capacity, rawHash, tbl, hm>> /\ UNCHANGED hist

NextPair == PairInsert \/ PairRemove \/ PairGet

SpecPair == InitPair /\ [][NextPair]_vars

\* C20 (one contract): for the same capacity and the same sequence of
\* insert/get/remove calls, VectorHashTable (any hash function) and
\* HashMapHashTable return the same result for every insert (Ok or 'full')
\* and every get.  After any common sequence of calls, the next insert and
\* the next get return the same on both tables.
C20_SameResults ==
    \A key \in Keys :
        /\ VectorGetResult(table, key) = HashMapGetResult(map, key)
        /\ \A value \in Values :
                VectorInsertResult(table, key, value).res
                    = HashMapInsertResult(map, order, key, value).res

(* --------------------------- claim on the slots ------------------------- *)
\* C21 (key uniqueness, open-addressed tables): in every state reachable by
\* any sequence of inserts and removes, no two occupied slots hold equal
\* keys (an insert of a stored key then rewrites its slot and the number of
\* occupied slots stays as it is).
C21_KeyUniqueness ==
    \A key \in Keys :
        CASE impl = "array" -> Cardinality(ArraySlotsOf(table, key)) <= 1
          [] impl = "vector" -> Cardinality(VectorSlotsOf(table, key)) <= 1
          [] OTHER -> TRUE
====
